---------------------------- MODULE Spec2Model ----------------------------
(***************************************************************************)
(* Model of generate_ranking.py: main() loads a JSON ranking file and      *)
(* create_visualization() draws the two-column year-over-year chart.       *)
(*                                                                         *)
(* Python values are represented as follows.                               *)
(*   None / optional value : <<>> for None, <<v>> for the value v          *)
(*   dict                  : a function; "k in d" is k \in DOMAIN d        *)
(*   list                  : a sequence (Python index i is TLA+ index i+1) *)
(*   str built by f-string : a sequence of its pieces                      *)
(*   float coordinates     : integers (all of them are whole numbers);     *)
(*                           line widths in hundredths; Bezier points as   *)
(*                           numerators over BezierDen                     *)
(* A set handed to enumerate() is enumerated in an order the interpreter   *)
(* picks (string hashing is randomised per process): the order is a        *)
(* nondeterministic choice among the permutations of the set.              *)
(***************************************************************************)
EXTENDS Integers, Sequences, FiniteSets, TLC

VARIABLES
    \* the environment of one run: the data file and the command line
    fs_state,              \* what opening/parsing the data file does
    fs_data,               \* the mapping the file holds when it is valid
    max_entries_override,  \* args.max_entries: <<>> (None) or <<n>>
    \* main()
    pc, data, stdout, exception, viz_calls, output_written,
    \* create_visualization(): locals
    prev_year, curr_year, data_prev_all, data_curr_all, max_entries,
    data_prev, data_curr, positions_prev, positions_curr, curr_keys,
    items_prev_top, items_curr_top, item_category_prev, item_category_curr,
    CATEGORY_COLORS, active_categories, i,
    \* create_visualization(): what has been drawn on the canvas
    year_labels, row_bgs, separators, circles, value_texts, new_labels,
    prev_indicators, curves, legend,
    \* generate_category_colors() applied on its own to two inputs
    categories, color_dict, categories2, color_dict2

envVars   == <<fs_state, fs_data, max_entries_override>>
mainVars  == <<pc, data, stdout, exception, viz_calls, output_written>>
localVars == <<prev_year, curr_year, data_prev_all, data_curr_all, max_entries,
               data_prev, data_curr, items_prev_top, items_curr_top,
               item_category_prev, item_category_curr, CATEGORY_COLORS>>
loopVars  == <<positions_prev, positions_curr, curr_keys, active_categories, i>>
drawVars  == <<year_labels, row_bgs, separators, circles, value_texts,
               new_labels, prev_indicators, curves, legend>>
colorVars == <<categories, color_dict, categories2, color_dict2>>
vars == <<envVars, mainVars, localVars, loopVars, drawVars, colorVars>>

-----------------------------------------------------------------------------
(* Bounds of the model *)

\* most records in one data file, over all its years
MaxRecords == 3
\* largest --max-entries value tried (the smallest is -1)
MaxOverride == 2
\* most categories enumerated ahead of the ones under study
MaxFill == 20
\* most categories of a file made to fill the legend
MaxCategories == 13

-----------------------------------------------------------------------------
(* Generic helpers *)

None == <<>>
Some(v) == <<v>>

Min(a, b) == IF a <= b THEN a ELSE b
Max(a, b) == IF a >= b THEN a ELSE b

Range(s) == {s[k] : k \in DOMAIN s}

\* d[k] = v on a dict
Put(d, k, v) == [x \in (DOMAIN d) \cup {k} |-> IF x = k THEN v ELSE d[x]]

\* the sequences that enumerate the finite set S once each
Orders(S) == {s \in [1..Cardinality(S) -> S] : Range(s) = S}

\* str(n) for an integer n >= 0, as its decimal digits
DigitChars == <<"0", "1", "2", "3", "4", "5", "6", "7", "8", "9">>
RECURSIVE StrNat(_)
StrNat(n) == IF n < 10 THEN <<DigitChars[n + 1]>>
             ELSE StrNat(n \div 10) \o <<DigitChars[(n % 10) + 1]>>
\* str(n) for any integer
Str(n) == IF n < 0 THEN <<"-">> \o StrNat(0 - n) ELSE StrNat(n)

-----------------------------------------------------------------------------
(* generate_category_colors *)

FALLBACK_COLORS ==
    [c \in {"Group A", "Group B", "Group C", "Group D", "Group E", "Group F",
            "Group G", "Group H", "Group I", "Group J", "Unknown"} |->
        CASE c = "Group A" -> "#FF7F0E"
          [] c = "Group B" -> "#1F77B4"
          [] c = "Group C" -> "#2CA02C"
          [] c = "Group D" -> "#9467BD"
          [] c = "Group E" -> "#D62728"
          [] c = "Group F" -> "#8C564B"
          [] c = "Group G" -> "#E377C2"
          [] c = "Group H" -> "#7F7F7F"
          [] c = "Group I" -> "#BCBD22"
          [] c = "Group J" -> "#17BECF"
          [] c = "Unknown" -> "#8C8C8C"]

base_colors ==
    <<"#1F77B4", "#FF7F0E", "#2CA02C", "#D62728", "#9467BD",
      "#8C564B", "#E377C2", "#7F7F7F", "#BCBD22", "#17BECF",
      "#AF7AA1", "#FE5F55", "#4B3B40", "#9CAFB7", "#566E3D",
      "#A5D8DD", "#E36588", "#7FB069", "#D8973C", "#965251">>

\* The md5 -> HSV -> RGB -> hex pipeline of the else branch, tabulated for the
\* category names of the model (the value depends on the name alone).
HashColor(category) ==
    CASE category = "X"   -> "#c73e37"
      [] category = "F01" -> "#7508e4"
      [] category = "F02" -> "#812aa5"
      [] category = "F03" -> "#b3198d"
      [] category = "F04" -> "#0b69c9"
      [] category = "F05" -> "#e3a41c"
      [] category = "F06" -> "#36de03"
      [] category = "F07" -> "#b7c826"
      [] category = "F08" -> "#a59f31"
      [] category = "F09" -> "#d0299b"
      [] category = "F10" -> "#583bd6"
      [] category = "F11" -> "#239a4d"
      [] category = "F12" -> "#b73679"
      [] category = "F13" -> "#0870db"
      [] category = "F14" -> "#b79f20"
      [] category = "F15" -> "#b2297d"
      [] category = "F16" -> "#07a80b"
      [] category = "F17" -> "#c11414"
      [] category = "F18" -> "#30a3a7"
      [] category = "F19" -> "#8c19a5"
      [] category = "F20" -> "#b32b34"
      [] category = "F21" -> "#05e0b4"
      [] category = "F22" -> "#14bab8"
      [] OTHER -> "#000000"

\* one pass of "for i, category in enumerate(categories)", from index idx on
RECURSIVE ColorLoop(_, _, _)
ColorLoop(cats, idx, dict) ==
    IF idx >= Len(cats) THEN dict
    ELSE LET category == cats[idx + 1]
         IN  ColorLoop(cats, idx + 1,
                 IF category \notin DOMAIN dict
                 THEN IF idx < Len(base_colors)
                      THEN Put(dict, category, base_colors[idx + 1])
                      ELSE Put(dict, category, HashColor(category))
                 ELSE dict)

\* generate_category_colors(categories), categories in enumeration order
generate_category_colors(cats) == ColorLoop(cats, 0, FALLBACK_COLORS)


-----------------------------------------------------------------------------
(* The inputs of a run *)

\* Year labels a data file may use as keys, and the two placeholder labels.
YearKeys == {"2023", "2024", "Current Year"}
PlaceholderYears == <<"Previous Year", "Current Year">>

\* The code points of a str: sorted() orders str values by them.
CodePoints(s) ==
    CASE s = "2023"          -> <<50, 48, 50, 51>>
      [] s = "2024"          -> <<50, 48, 50, 52>>
      [] s = "Current Year"  -> <<67, 117, 114, 114, 101, 110, 116, 32, 89, 101, 97, 114>>
      [] s = "Previous Year" -> <<80, 114, 101, 118, 105, 111, 117, 115, 32, 89, 101, 97, 114>>
      [] s = "Group B"       -> <<71, 114, 111, 117, 112, 32, 66>>
      [] s = "Unknown"       -> <<85, 110, 107, 110, 111, 119, 110>>
      [] s = "X"             -> <<88>>
      [] s = "F01"           -> <<70, 48, 49>>
      [] s = "F02"           -> <<70, 48, 50>>
      [] s = "F03"           -> <<70, 48, 51>>
      [] s = "F04"           -> <<70, 48, 52>>
      [] s = "F05"           -> <<70, 48, 53>>
      [] s = "F06"           -> <<70, 48, 54>>
      [] s = "F07"           -> <<70, 48, 55>>
      [] s = "F08"           -> <<70, 48, 56>>
      [] s = "F09"           -> <<70, 48, 57>>
      [] s = "F10"           -> <<70, 49, 48>>
      [] s = "F11"           -> <<70, 49, 49>>
      [] s = "F12"           -> <<70, 49, 50>>
      [] s = "F13"           -> <<70, 49, 51>>
      [] s = "F14"           -> <<70, 49, 52>>
      [] s = "F15"           -> <<70, 49, 53>>
      [] s = "F16"           -> <<70, 49, 54>>
      [] s = "F17"           -> <<70, 49, 55>>
      [] s = "F18"           -> <<70, 49, 56>>
      [] s = "F19"           -> <<70, 49, 57>>
      [] s = "F20"           -> <<70, 50, 48>>
      [] s = "F21"           -> <<70, 50, 49>>
      [] s = "F22"           -> <<70, 50, 50>>

\* The records a year's list is made of.  Two records share item "A" with
\* different ranks and categories, two share rank 1, one has no category,
\* one carries a percentage.
RecordPool ==
    { [item |-> "A", rank |-> 1, category |-> "X"],
      [item |-> "A", rank |-> 2, category |-> "Group B", percentage |-> 50],
      [item |-> "B", rank |-> 1],
      [item |-> "B", rank |-> 2, category |-> "X"] }

\* the lists of exactly n records
ListsOfLen(n) == [1..n -> RecordPool]

\* --max-entries: absent, or an integer (argparse type=int accepts any)
Overrides == {None} \cup {Some(n) : n \in (0 - 1)..MaxOverride}

\* what open()/json.load() can do with the data file
FsStates == {"ok", "missing", "not_json", "unreadable", "not_utf8"}

\* the exception load_data_from_json raises, with its base classes
\* (most derived first)
LoadError(state) ==
    CASE state = "missing"    -> <<"FileNotFoundError", "OSError", "Exception">>
      [] state = "not_json"   -> <<"JSONDecodeError", "ValueError", "Exception">>
      [] state = "unreadable" -> <<"PermissionError", "OSError", "Exception">>
      [] state = "not_utf8"   -> <<"UnicodeDecodeError", "ValueError", "Exception">>

\* category names handed to generate_category_colors on its own: a prefix of
\* k filler names followed by one of the tails
FillNames == <<"F01", "F02", "F03", "F04", "F05", "F06", "F07", "F08", "F09",
               "F10", "F11", "F12", "F13", "F14", "F15", "F16", "F17", "F18",
               "F19", "F20", "F21", "F22">>
ColorTails == {<<>>, <<"X">>, <<"Group B">>, <<"X", "Group B">>, <<"Group B", "X">>}
ColorInputs == {SubSeq(FillNames, 1, k) \o t : k \in 0..MaxFill, t \in ColorTails}

-----------------------------------------------------------------------------
(* Helpers of create_visualization *)

\* a < b for two str values (lexicographic on code points)
RECURSIVE SeqLess(_, _)
SeqLess(a, b) ==
    IF b = <<>> THEN FALSE
    ELSE IF a = <<>> THEN TRUE
    ELSE IF a[1] # b[1] THEN a[1] < b[1]
    ELSE SeqLess(Tail(a), Tail(b))
StrLess(a, b) == SeqLess(CodePoints(a), CodePoints(b))

\* sorted(S) for a set of str
RECURSIVE sorted(_)
sorted(S) ==
    IF S = {} THEN <<>>
    ELSE LET least == CHOOSE x \in S : \A y \in S \ {x} : StrLess(x, y)
         IN  <<least>> \o sorted(S \ {least})

\* d.get(k, default)
Get(d, k, default) == IF k \in DOMAIN d THEN d[k] ELSE default

\* item.get('category', 'Unknown')
CategoryOf(item) == IF "category" \in DOMAIN item THEN item.category ELSE "Unknown"

\* get_rank_in_data(item_name, data): the rank of the first record named so
RECURSIVE get_rank_in_data(_, _)
get_rank_in_data(item_name, list) ==
    IF list = <<>> THEN None
    ELSE IF list[1].item = item_name THEN Some(list[1].rank)
    ELSE get_rank_in_data(item_name, Tail(list))

\* [item for item in list if item['rank'] <= n]
RECURSIVE TopFilter(_, _)
TopFilter(list, n) ==
    IF list = <<>> THEN <<>>
    ELSE IF list[1].rank <= n THEN <<list[1]>> \o TopFilter(Tail(list), n)
    ELSE TopFilter(Tail(list), n)

\* (mutation) the comprehension runs over list[1:] and misses the first record
CategoryDictFromSecond(list) ==
    [n \in {list[k].item : k \in 2..Len(list)} |->
        LET at == {k \in 2..Len(list) : list[k].item = n}
        IN  CategoryOf(list[CHOOSE k \in at : \A m \in at : m <= k])]

\* {item['item']: item.get('category', 'Unknown') for item in list}
RECURSIVE CategoryDict(_)
CategoryDict(list) ==
    IF list = <<>> THEN <<>>
    ELSE LET last == list[Len(list)]
         IN  Put(CategoryDict(SubSeq(list, 1, Len(list) - 1)), last.item, CategoryOf(last))

\* the "if max_entries_override is not None" computation of max_entries
MaxEntries(override, prev_all, curr_all) ==
    IF override # None
    THEN Min(override[1], Max(Len(prev_all), Len(curr_all)))
    ELSE Min(10, Max(Len(prev_all), Len(curr_all)))

\* truth value of "if prev_rank:" (None and 0 are false)
Truthy(opt) == opt # None /\ opt[1] # 0

\* layout constants
left_col_x == 25
right_col_x == 75
spacing == 6
top_y == 80
\* y of the i-th row (i from 0)
RowY(idx) == top_y - idx * spacing

\* value_text of a record: f"{percentage}%" or "" (no record of the model
\* carries a 'value' key)
ValueText(item) ==
    IF "percentage" \in DOMAIN item THEN Str(item.percentage) \o <<"%">> ELSE <<>>

\* line width of a curve in hundredths: max(0.6, min(2.8, perc / 25 + 0.6)),
\* or the default 1.5
CurveWidth(item_name, curr_all) ==
    LET found == {k \in DOMAIN curr_all : curr_all[k].item = item_name}
    IN  IF found = {} THEN 150
        ELSE LET item_curr_data == curr_all[CHOOSE k \in found : \A m \in found : k <= m]
             IN  IF "percentage" \in DOMAIN item_curr_data
                 THEN Max(60, Min(280, item_curr_data.percentage * 4 + 60))
                 ELSE 150


-----------------------------------------------------------------------------
(* draw_flow_curve *)

\* np.linspace(0, 1, 150): the curve is evaluated at t = k / 149, k = 0..149
NumPoints == 150
BezierDen == (NumPoints - 1) * (NumPoints - 1) * (NumPoints - 1)

\* one coordinate of curve[k], times BezierDen
BezierNum(k, p0, p1, p2, p3) ==
    LET u == (NumPoints - 1) - k
    IN  u * u * u * p0 + 3 * u * u * k * p1 + 3 * u * k * k * p2 + k * k * k * p3

\* the text of the rank change indicator
RankText(rank_change) ==
    IF rank_change > 0 THEN <<"+">> \o Str(rank_change)
    ELSE IF rank_change < 0 THEN Str(rank_change)
    ELSE <<"0">>

\* What draw_flow_curve puts on the canvas: the polyline through curve[0..149]
\* (its first and last point, and curve[len // 2] as numerators over
\* BezierDen), its gradient colours and width, and the indicator when
\* rank_change is not None.
draw_flow_curve(x1, y1, x2, y2, start_color, end_color, width, rank_change) ==
    LET x_dist == IF x2 >= x1 THEN x2 - x1 ELSE x1 - x2
        control_shift == Min((x_dist * 4) \div 10, 18)
        cx1 == x1 + control_shift
        cx2 == x2 - control_shift
        PointNum(k) == <<BezierNum(k, x1, cx1, cx2, x2), BezierNum(k, y1, y1, y2, y2)>>
        first == PointNum(0)
        last == PointNum(NumPoints - 1)
        mid == PointNum(NumPoints \div 2)
    IN  [from |-> <<first[1] \div BezierDen, first[2] \div BezierDen>>,
         to |-> <<last[1] \div BezierDen, last[2] \div BezierDen>>,
         start_color |-> start_color,
         end_color |-> end_color,
         width |-> width,
         indicator |-> IF rank_change # None
                       THEN Some([at |-> mid, text |-> RankText(rank_change[1])])
                       ELSE None]

-----------------------------------------------------------------------------
(* Initial states *)

\* the mappings from the year keys K to lists holding at most budget records
\* in all
RECURSIVE FilesOver(_, _)
FilesOver(K, budget) ==
    IF K = {} THEN {<<>>}
    ELSE LET k == CHOOSE x \in K : TRUE
         IN  UNION { { Put(f, k, l) : f \in FilesOver(K \ {k}, budget - n),
                                      l \in ListsOfLen(n) } : n \in 0..budget }

DataFiles == UNION { FilesOver(K, MaxRecords) : K \in SUBSET YearKeys }

\* nothing has run: the locals are unset and the canvas is empty
InitIdle ==
    /\ data = <<>> /\ stdout = <<>> /\ exception = None
    /\ viz_calls = 0 /\ output_written = FALSE
    /\ prev_year = "" /\ curr_year = ""
    /\ data_prev_all = <<>> /\ data_curr_all = <<>> /\ max_entries = 0
    /\ data_prev = <<>> /\ data_curr = <<>>
    /\ positions_prev = <<>> /\ positions_curr = <<>> /\ curr_keys = <<>>
    /\ items_prev_top = {} /\ items_curr_top = {}
    /\ item_category_prev = <<>> /\ item_category_curr = <<>>
    /\ CATEGORY_COLORS = <<>> /\ active_categories = <<>> /\ i = 0
    /\ year_labels = <<>> /\ row_bgs = {} /\ separators = {}
    /\ circles = {} /\ value_texts = {} /\ new_labels = {}
    /\ prev_indicators = {} /\ curves = {} /\ legend = {}

\* the script is started on some data file with some --max-entries
Init ==
    /\ fs_state \in FsStates
    /\ fs_data \in (IF fs_state = "ok" THEN DataFiles ELSE {<<>>})
    /\ max_entries_override \in Overrides
    /\ pc = "main"
    /\ InitIdle
    /\ categories = <<>> /\ color_dict = <<>>
    /\ categories2 = <<>> /\ color_dict2 = <<>>

\* generate_category_colors is about to be applied to two enumerations
InitColors ==
    /\ fs_state = "ok" /\ fs_data = <<>> /\ max_entries_override = None
    /\ pc = "colors"
    /\ InitIdle
    /\ categories \in ColorInputs /\ color_dict = <<>>
    /\ categories2 \in ColorInputs /\ color_dict2 = <<>>


-----------------------------------------------------------------------------
(* main *)

\* which except clause of main() takes an exception with these classes
HandlerFor(classes) ==
    IF "FileNotFoundError" \in Range(classes) THEN "except FileNotFoundError"
    ELSE IF "JSONDecodeError" \in Range(classes) THEN "except JSONDecodeError"
    ELSE IF "Exception" \in Range(classes) THEN "except Exception"
    ELSE "unhandled"

\* what the chosen except clause prints
HandlerOutput(handler) ==
    CASE handler = "except FileNotFoundError" -> <<"Error: Data file not found.">>
      [] handler = "except JSONDecodeError"   -> <<"Error: not a valid JSON file.">>
      [] handler = "except Exception"         -> <<"Error loading data", "Please provide a valid JSON data file.">>
      [] OTHER -> <<>>

\* (mutation) the except clauses print and do not return
HandlerFallsThrough(handler) == "create_visualization"

\* where main() is after the chosen except clause ran
HandlerExit(handler) == IF handler = "unhandled" THEN "raised" ELSE "returned"

\* try: data = load_data_from_json(args.data) succeeds
MainLoad ==
    /\ pc = "main"
    /\ fs_state = "ok"
    /\ data' = fs_data
    /\ pc' = "create_visualization"
    /\ UNCHANGED <<stdout, exception, viz_calls, output_written>>
    /\ UNCHANGED <<envVars, localVars, loopVars, drawVars, colorVars>>

\* load_data_from_json raises and one of the except clauses runs
MainLoadFails ==
    /\ pc = "main"
    /\ fs_state # "ok"
    /\ LET handler == HandlerFor(LoadError(fs_state))
       IN  /\ stdout' = stdout \o HandlerOutput(handler)
           /\ pc' = HandlerExit(handler)
           /\ exception' = IF handler = "unhandled"
                           THEN Some(LoadError(fs_state)[1]) ELSE None
    /\ UNCHANGED <<data, viz_calls, output_written>>
    /\ UNCHANGED <<envVars, localVars, loopVars, drawVars, colorVars>>

-----------------------------------------------------------------------------
(* create_visualization *)

\* (mutation) the first year instead of the last but one
FirstYearOf(years) == years[1]

\* years[-2] and years[-1] of the year list in use
PrevYearOf(years) == years[Len(years) - 1]
CurrYearOf(years) == years[Len(years)]

\* (mutation) a single year is kept and paired with one placeholder
YearsPadded(d) ==
    LET years == sorted(DOMAIN d)
    IN  IF Len(years) = 0 THEN PlaceholderYears
        ELSE IF Len(years) = 1 THEN <<PlaceholderYears[1], years[1]>>
        ELSE years

\* the year list in use: the sorted keys, or the placeholders
YearsOf(d) ==
    LET years == sorted(DOMAIN d)
    IN  IF Len(years) < 2 THEN PlaceholderYears ELSE years

\* the shaded rows (y_bottom of each) and the dotted separators (y of each)
RowBackgrounds(n) == {RowY(k + 1) + spacing \div 2 : k \in {m \in 0..(n - 1) : m % 2 = 0}}
SeparatorLines(n) == {RowY(k) + spacing \div 2 : k \in 1..(n - 1)}

\* The call from main() and the function up to its first drawing loop: the
\* years, the two lists, max_entries, the filtered lists, the lookups, the
\* colours, the year labels, the row backgrounds and the separators.
VizSetup ==
    /\ pc = "create_visualization"
    /\ viz_calls' = viz_calls + 1
    /\ LET years == YearsOf(data)
           py == PrevYearOf(years)
           cy == CurrYearOf(years)
           pall == Get(data, py, <<>>)
           call == Get(data, cy, <<>>)
           n == MaxEntries(max_entries_override, pall, call)
           icp == CategoryDict(pall)
           icc == CategoryDict(call)
           all_categories == Range(icp) \cup Range(icc)
       IN  /\ stdout' = IF Cardinality(DOMAIN data) < 2
                        THEN Append(stdout, "Warning: Data must contain at least two years.")
                        ELSE stdout
           /\ prev_year' = py
           /\ curr_year' = cy
           /\ year_labels' = <<py, cy>>
           /\ data_prev_all' = pall
           /\ data_curr_all' = call
           /\ max_entries' = n
           /\ data_prev' = TopFilter(pall, n)
           /\ data_curr' = TopFilter(call, n)
           /\ items_prev_top' = {r.item : r \in Range(TopFilter(pall, n))}
           /\ items_curr_top' = {r.item : r \in Range(TopFilter(call, n))}
           /\ item_category_prev' = icp
           /\ item_category_curr' = icc
           /\ \E order \in Orders(all_categories) :
                  CATEGORY_COLORS' = generate_category_colors(order)
           /\ row_bgs' = RowBackgrounds(n)
           /\ separators' = SeparatorLines(n)
    /\ i' = 0
    /\ pc' = "draw_prev"
    /\ UNCHANGED <<data, exception, output_written>>
    /\ UNCHANGED <<positions_prev, positions_curr, curr_keys, active_categories>>
    /\ UNCHANGED <<circles, value_texts, new_labels, prev_indicators, curves, legend>>
    /\ UNCHANGED <<envVars, colorVars>>

\* CATEGORY_COLORS[category] fails: the KeyError leaves create_visualization
\* and main()
RaiseKeyError ==
    /\ pc' = "raised"
    /\ exception' = Some("KeyError")

\* the circle, rank number and name drawn for a record in a column
RankCircle(x, y_pos, item) ==
    [x |-> x, y |-> y_pos, color |-> CATEGORY_COLORS[CategoryOf(item)],
     rank_text |-> Str(item.rank), name |-> item.item]

\* the value text under a name (y in halves: y_pos - 1.5), when there is one
ValueTexts(x, y_pos, item) ==
    IF ValueText(item) # <<>>
    THEN {[x |-> x + 5, y2 |-> 2 * y_pos - 3, text |-> ValueText(item)]}
    ELSE {}

\* one iteration of "for i, item in enumerate(data_prev)"
DrawPrev ==
    /\ pc = "draw_prev"
    /\ i < Len(data_prev)
    /\ LET item == data_prev[i + 1]
           y_pos == RowY(i)
       IN  /\ positions_prev' = Put(positions_prev, item.item, <<left_col_x, y_pos>>)
           /\ IF CategoryOf(item) \notin DOMAIN CATEGORY_COLORS
              THEN /\ RaiseKeyError
                   /\ UNCHANGED <<circles, value_texts, i>>
              ELSE /\ circles' = circles \cup {RankCircle(left_col_x, y_pos, item)}
                   /\ value_texts' = value_texts \cup ValueTexts(left_col_x, y_pos, item)
                   /\ i' = i + 1
                   /\ UNCHANGED <<pc, exception>>
    /\ UNCHANGED <<data, stdout, viz_calls, output_written>>
    /\ UNCHANGED <<positions_curr, curr_keys, active_categories>>
    /\ UNCHANGED <<year_labels, row_bgs, separators, new_labels, prev_indicators, curves, legend>>
    /\ UNCHANGED <<envVars, localVars, colorVars>>

\* the previous-year loop is over
DrawPrevEnd ==
    /\ pc = "draw_prev"
    /\ i >= Len(data_prev)
    /\ pc' = "draw_curr"
    /\ i' = 0
    /\ UNCHANGED <<data, stdout, exception, viz_calls, output_written>>
    /\ UNCHANGED <<positions_prev, positions_curr, curr_keys, active_categories>>
    /\ UNCHANGED <<envVars, localVars, drawVars, colorVars>>

\* the NEW label of a new entry, and its previous-rank circle when the item
\* has a rank in the previous year's full list
NewEntryLabel(y_pos, prev_rank) ==
    IF Truthy(prev_rank)
    THEN [x |-> right_col_x - 19, y |-> y_pos, text |-> "NEW"]
    ELSE [x |-> right_col_x - 12, y |-> y_pos, text |-> "NEW"]

PrevRankIndicator(y_pos, item, prev_rank) ==
    IF Truthy(prev_rank)
    THEN {[x |-> right_col_x - 12, y |-> y_pos,
           color |-> CATEGORY_COLORS[CategoryOf(item)],
           text |-> Str(prev_rank[1]), name |-> item.item]}
    ELSE {}

\* (mutation) the previous rank is looked up in the filtered list
PrevRankInTop(item_name) == get_rank_in_data(item_name, data_prev)

\* prev_rank of a new entry: its rank in the previous year's full list
PrevRankOf(item_name) == get_rank_in_data(item_name, data_prev_all)

\* (mutation) new means absent from the previous year's full list
IsNewEntryInFullList(item) == get_rank_in_data(item.item, data_prev_all) = None

\* whether a current-year record is drawn as a new entry
IsNewEntry(item) == item.item \notin items_prev_top

\* one iteration of "for i, item in enumerate(data_curr)"
DrawCurr ==
    /\ pc = "draw_curr"
    /\ i < Len(data_curr)
    /\ LET item == data_curr[i + 1]
           y_pos == RowY(i)
           prev_rank == PrevRankOf(item.item)
       IN  /\ positions_curr' = Put(positions_curr, item.item, <<right_col_x, y_pos>>)
           /\ curr_keys' = IF item.item \in DOMAIN positions_curr
                           THEN curr_keys ELSE Append(curr_keys, item.item)
           /\ IF CategoryOf(item) \notin DOMAIN CATEGORY_COLORS
              THEN /\ RaiseKeyError
                   /\ UNCHANGED <<circles, value_texts, new_labels, prev_indicators, i>>
              ELSE /\ circles' = circles \cup {RankCircle(right_col_x, y_pos, item)}
                   /\ value_texts' = value_texts \cup ValueTexts(right_col_x, y_pos, item)
                   /\ IF IsNewEntry(item)
                      THEN /\ new_labels' = new_labels \cup
                                  {[name |-> item.item, label |-> NewEntryLabel(y_pos, prev_rank)]}
                           /\ prev_indicators' = prev_indicators \cup
                                  PrevRankIndicator(y_pos, item, prev_rank)
                      ELSE UNCHANGED <<new_labels, prev_indicators>>
                   /\ i' = i + 1
                   /\ UNCHANGED <<pc, exception>>
    /\ UNCHANGED <<data, stdout, viz_calls, output_written>>
    /\ UNCHANGED <<positions_prev, active_categories>>
    /\ UNCHANGED <<year_labels, row_bgs, separators, curves, legend>>
    /\ UNCHANGED <<envVars, localVars, colorVars>>

\* the current-year loop is over
DrawCurrEnd ==
    /\ pc = "draw_curr"
    /\ i >= Len(data_curr)
    /\ pc' = "draw_curves"
    /\ i' = 0
    /\ UNCHANGED <<data, stdout, exception, viz_calls, output_written>>
    /\ UNCHANGED <<positions_prev, positions_curr, curr_keys, active_categories>>
    /\ UNCHANGED <<envVars, localVars, drawVars, colorVars>>


\* "if item in positions_prev": the item gets a flow curve
HasFlowCurve(item_name) == item_name \in DOMAIN positions_prev

\* (mutation) the difference taken the other way round
RankChangeReversed(start_rank, end_rank) ==
    IF start_rank # None /\ end_rank # None
    THEN Some(end_rank[1] - start_rank[1])
    ELSE None

\* rank_change: None unless both ranks are found; positive means moved up
RankChange(start_rank, end_rank) ==
    IF start_rank # None /\ end_rank # None
    THEN Some(start_rank[1] - end_rank[1])
    ELSE None

\* (mutation) the curve starts at the height of the current-year row
CurveStartAtCurrentRow(item_name) == <<left_col_x, positions_curr[item_name][2]>>

\* where the curve of an item starts and ends
CurveStart(item_name) == positions_prev[item_name]
CurveEnd(item_name) == positions_curr[item_name]

\* one iteration of "for item, (x2, y2) in positions_curr.items()"
DrawCurves ==
    /\ pc = "draw_curves"
    /\ i < Len(curr_keys)
    /\ LET item_name == curr_keys[i + 1]
           start_category == Get(item_category_prev, item_name, "Unknown")
           end_category == Get(item_category_curr, item_name, "Unknown")
           start_rank == get_rank_in_data(item_name, data_prev_all)
           end_rank == get_rank_in_data(item_name, data_curr_all)
       IN  IF ~HasFlowCurve(item_name)
           THEN /\ i' = i + 1
                /\ UNCHANGED <<pc, exception, curves>>
           ELSE IF {start_category, end_category} \subseteq DOMAIN CATEGORY_COLORS
           THEN /\ curves' = curves \cup
                       {[name |-> item_name,
                         rank_change |-> RankChange(start_rank, end_rank),
                         art |-> draw_flow_curve(
                                    CurveStart(item_name)[1], CurveStart(item_name)[2],
                                    CurveEnd(item_name)[1], CurveEnd(item_name)[2],
                                    CATEGORY_COLORS[start_category],
                                    CATEGORY_COLORS[end_category],
                                    CurveWidth(item_name, data_curr_all),
                                    RankChange(start_rank, end_rank))]}
                /\ i' = i + 1
                /\ UNCHANGED <<pc, exception>>
           ELSE /\ RaiseKeyError
                /\ UNCHANGED <<curves, i>>
    /\ UNCHANGED <<data, stdout, viz_calls, output_written>>
    /\ UNCHANGED <<positions_prev, positions_curr, curr_keys, active_categories>>
    /\ UNCHANGED <<year_labels, row_bgs, separators, circles, value_texts,
                   new_labels, prev_indicators, legend>>
    /\ UNCHANGED <<envVars, localVars, colorVars>>

\* sorted(list(set(...values()) | set(...values()))) for the legend
ActiveCategories ==
    sorted(Range(item_category_prev) \cup Range(item_category_curr))

\* the curve loop is over: the legend container is drawn and the active
\* categories are sorted
DrawCurvesEnd ==
    /\ pc = "draw_curves"
    /\ i >= Len(curr_keys)
    /\ active_categories' = ActiveCategories
    /\ pc' = "draw_legend"
    /\ i' = 0
    /\ UNCHANGED <<data, stdout, exception, viz_calls, output_written>>
    /\ UNCHANGED <<positions_prev, positions_curr, curr_keys>>
    /\ UNCHANGED <<envVars, localVars, drawVars, colorVars>>

\* (mutation) the cap of four per column is left out
ItemsPerColumnUncapped(n) == Max(1, n \div 3 + 1)

\* min(4, max(1, n // 3 + 1))
ItemsPerColumn(n) == Min(4, Max(1, n \div 3 + 1))

\* one iteration of "for i, category in enumerate(active_categories)"
\* (y in tenths: legend_y - row * 2.7)
DrawLegend ==
    /\ pc = "draw_legend"
    /\ i < Len(active_categories)
    /\ LET category == active_categories[i + 1]
           items_per_column == ItemsPerColumn(Len(active_categories))
           column == i \div items_per_column
           row == i % items_per_column
       IN  legend' = legend \cup
               {[category |-> category, column |-> column, row |-> row,
                 x |-> 10 + column * 30, y10 |-> 80 - row * 27,
                 color |-> Get(CATEGORY_COLORS, category, CATEGORY_COLORS["Unknown"])]}
    /\ i' = i + 1
    /\ UNCHANGED mainVars
    /\ UNCHANGED <<positions_prev, positions_curr, curr_keys, active_categories>>
    /\ UNCHANGED <<year_labels, row_bgs, separators, circles, value_texts,
                   new_labels, prev_indicators, curves>>
    /\ UNCHANGED <<envVars, localVars, colorVars>>

\* plt.savefig(output_file) and the final print; create_visualization and
\* main() return
SaveFigure ==
    /\ pc = "draw_legend"
    /\ i >= Len(active_categories)
    /\ output_written' = TRUE
    /\ stdout' = Append(stdout, "visualization saved")
    /\ pc' = "returned"
    /\ UNCHANGED <<data, exception, viz_calls>>
    /\ UNCHANGED <<envVars, localVars, loopVars, drawVars, colorVars>>

-----------------------------------------------------------------------------
(* generate_category_colors applied on its own *)

\* the function is applied to the first enumeration
GenerateColors ==
    /\ pc = "colors"
    /\ color_dict = <<>>
    /\ color_dict' = generate_category_colors(categories)
    /\ UNCHANGED <<categories, categories2, color_dict2>>
    /\ UNCHANGED <<envVars, mainVars, localVars, loopVars, drawVars>>

\* the function is applied to the second enumeration
GenerateColors2 ==
    /\ pc = "colors"
    /\ color_dict2 = <<>>
    /\ color_dict2' = generate_category_colors(categories2)
    /\ UNCHANGED <<categories, categories2, color_dict>>
    /\ UNCHANGED <<envVars, mainVars, localVars, loopVars, drawVars>>

-----------------------------------------------------------------------------
(* Specifications *)

Next ==
    \/ MainLoad
    \/ MainLoadFails
    \/ VizSetup
    \/ DrawPrev
    \/ DrawPrevEnd
    \/ DrawCurr
    \/ DrawCurrEnd
    \/ DrawCurves
    \/ DrawCurvesEnd
    \/ DrawLegend
    \/ SaveFigure

\* one run of the script
Spec == Init /\ [][Next]_vars

NextColors == GenerateColors \/ GenerateColors2

\* generate_category_colors on two enumerations of category names
SpecColors == InitColors /\ [][NextColors]_vars

\* A file with many categories: n records in the previous year, each with a
\* category of its own, and an empty current year.
WideList(n) == [k \in 1..n |-> [item |-> FillNames[k], rank |-> k, category |-> FillNames[k]]]
WideFile(n) == [y \in {"2023", "2024"} |-> IF y = "2023" THEN WideList(n) ELSE <<>>]

\* create_visualization on such a file with --max-entries 0, where it stands
\* after the curve loop: N = 0, nothing is in the columns, the colours were
\* generated and the legend is about to be drawn.
InitLegend ==
    \E n \in 0..MaxCategories :
        /\ fs_state = "ok" /\ fs_data = WideFile(n) /\ max_entries_override = Some(0)
        /\ pc = "draw_legend"
        /\ data = WideFile(n) /\ stdout = <<>> /\ exception = None
        /\ viz_calls = 1 /\ output_written = FALSE
        /\ prev_year = "2023" /\ curr_year = "2024"
        /\ data_prev_all = WideList(n) /\ data_curr_all = <<>>
        /\ max_entries = MaxEntries(Some(0), WideList(n), <<>>)
        /\ data_prev = TopFilter(WideList(n), 0) /\ data_curr = <<>>
        /\ positions_prev = <<>> /\ positions_curr = <<>> /\ curr_keys = <<>>
        /\ items_prev_top = {} /\ items_curr_top = {}
        /\ item_category_prev = CategoryDict(WideList(n)) /\ item_category_curr = <<>>
        /\ CATEGORY_COLORS = generate_category_colors(SubSeq(FillNames, 1, n))
        /\ active_categories = sorted(Range(CategoryDict(WideList(n))))
        /\ i = 0
        /\ year_labels = <<"2023", "2024">>
        /\ row_bgs = RowBackgrounds(0) /\ separators = SeparatorLines(0)
        /\ circles = {} /\ value_texts = {} /\ new_labels = {}
        /\ prev_indicators = {} /\ curves = {} /\ legend = {}
        /\ categories = <<>> /\ color_dict = <<>>
        /\ categories2 = <<>> /\ color_dict2 = <<>>

\* one run of the script, on the files of Init or, from the legend on, on a
\* file with many categories
SpecWide == (Init \/ InitLegend) /\ [][Next]_vars


-----------------------------------------------------------------------------
(* Vocabulary of the properties *)

\* create_visualization ran to its end and the figure is saved
Done == pc = "returned" /\ output_written

\* create_visualization has computed its locals
SetUp == pc \in {"draw_prev", "draw_curr", "draw_curves", "draw_legend", "returned", "raised"}
         /\ viz_calls = 1

\* the names of the records of a year's full list whose rank is at most n
ShownNames(list, n) == {list[k].item : k \in {j \in DOMAIN list : list[j].rank <= n}}

\* the y of the row that holds the name in a displayed column (the last such
\* row when the name occurs more than once)
RowOf(shown, name) ==
    LET rows == {k \in DOMAIN shown : shown[k].item = name}
    IN  80 - 6 * ((CHOOSE k \in rows : \A m \in rows : m <= k) - 1)

\* the rank of the first record of that name in a full list
RankIn(list, name) ==
    LET at == {k \in DOMAIN list : list[k].item = name}
    IN  list[CHOOSE k \in at : \A m \in at : k <= m].rank

\* the circles of the left and of the right column
LeftCircles == {c \in circles : c.x = 25}
RightCircles == {c \in circles : c.x = 75}

\* the number max_entries is meant to be
TopN(override, prev_all, curr_all) ==
    LET longest == IF Len(prev_all) >= Len(curr_all) THEN Len(prev_all) ELSE Len(curr_all)
        cap == IF override = <<>> THEN 10 ELSE override[1]
    IN  IF cap <= longest THEN cap ELSE longest

-----------------------------------------------------------------------------
(* C1 *)

\* C1: when the figure is saved, the names that have a flow curve are exactly
\* the names displayed in both columns (rank <= N in both years), no name has
\* two curves, and each curve runs from (25, y of the name's row on the left)
\* to (75, y of the name's row on the right).
C1_FlowCurveIffInBothColumns ==
    Done =>
        /\ {c.name : c \in curves} =
               ShownNames(data_prev_all, max_entries) \cap ShownNames(data_curr_all, max_entries)
        /\ \A c, d \in curves : c.name = d.name => c = d
        /\ \A c \in curves :
               /\ c.art.from = <<25, RowOf(data_prev, c.name)>>
               /\ c.art.to = <<75, RowOf(data_curr, c.name)>>

\* a saved figure with a curve between two different rows and with a
\* current-year name that gets no curve
C1_Witness ==
    /\ Done
    /\ \E c \in curves : c.art.from[2] # c.art.to[2]
    /\ ShownNames(data_curr_all, max_entries) \ ShownNames(data_prev_all, max_entries) # {}

-----------------------------------------------------------------------------
(* C2 *)

\* the names something is drawn for besides the ranking circles and labels
AnnotatedNames ==
    {c.name : c \in curves} \cup {l.name : l \in new_labels}
        \cup {p.name : p \in prev_indicators}

\* C2: when the figure is saved, every name displayed in the previous-year
\* column and not in the current-year column has an annotation or flow line
\* of its own.
C2_DroppedEntriesAnnotated ==
    Done =>
        \A n \in ShownNames(data_prev_all, max_entries) \ ShownNames(data_curr_all, max_entries) :
            n \in AnnotatedNames

-----------------------------------------------------------------------------
(* C3 *)

\* the names with a NEW label, and the rows that carry one
NewNames == {l.name : l \in new_labels}
HasNewLabelAt(name, y) == \E l \in new_labels : l.name = name /\ l.label.y = y

\* C3: when the figure is saved, the record in each row of the current-year
\* column has a NEW label in its row iff its name is not displayed in the
\* previous-year column, and every displayed current-year name has exactly
\* one of a NEW label and a flow curve.
C3_NewLabelIffNotInPrevColumn ==
    Done =>
        /\ \A k \in DOMAIN data_curr :
               HasNewLabelAt(data_curr[k].item, 80 - 6 * (k - 1))
                   <=> data_curr[k].item \notin ShownNames(data_prev_all, max_entries)
        /\ NewNames \subseteq ShownNames(data_curr_all, max_entries)
        /\ \A n \in ShownNames(data_curr_all, max_entries) :
               (n \in NewNames) <=> (n \notin {c.name : c \in curves})

\* a saved figure with a NEW label on one item and a curve to another
C3_Witness ==
    /\ Done
    /\ curves # {}
    /\ new_labels # {}

-----------------------------------------------------------------------------
(* C4 *)

\* the indicator text of a rank change d
DeltaText(d) ==
    IF d > 0 THEN <<"+">> \o Str(d)
    ELSE IF d < 0 THEN <<"-">> \o Str(0 - d)
    ELSE <<"0">>

\* C4: when the figure is saved, every flow curve was drawn with a rank_change
\* that is not None and equals the item's rank in the previous year's full
\* list minus its rank in the current year's full list, and carries an
\* indicator whose text is "+k", the negative number, or "0".
C4_RankDeltaOnEveryCurve ==
    Done =>
        \A c \in curves :
            LET d == RankIn(data_prev_all, c.name) - RankIn(data_curr_all, c.name)
            IN  /\ c.rank_change = <<d>>
                /\ c.art.indicator # <<>>
                /\ c.art.indicator[1].text = DeltaText(d)

\* a saved figure with an item that moved up one rank
C4_Witness ==
    /\ Done
    /\ \E c \in curves : c.rank_change = <<1>> /\ c.art.indicator[1].text = <<"+", "1">>

-----------------------------------------------------------------------------
(* C5 *)

\* C5: a category name enumerated in both inputs gets the same colour from
\* both applications of generate_category_colors.
C5_ColorDependsOnNameOnly ==
    (color_dict # <<>> /\ color_dict2 # <<>>) =>
        \A c \in Range(categories) \cap Range(categories2) :
            color_dict[c] = color_dict2[c]

-----------------------------------------------------------------------------
(* C6 *)

\* main() is over
Terminated == pc \in {"returned", "raised"}

\* C6: create_visualization is never called twice; when loading fails it is
\* never called, no image is written and no exception leaves main(), which
\* returns with an error message printed; when main() is over,
\* create_visualization has been called iff loading succeeded.
C6_LoadErrorsCaught ==
    /\ viz_calls <= 1
    /\ fs_state # "ok" =>
           /\ viz_calls = 0
           /\ ~output_written
           /\ exception = <<>>
           /\ pc \in {"main", "returned"}
           /\ pc = "returned" => stdout # <<>>
    /\ Terminated => (viz_calls = 1 <=> fs_state = "ok")

\* main() returned after an exception that is neither FileNotFoundError nor
\* JSONDecodeError
C6_Witness ==
    /\ pc = "returned"
    /\ fs_state = "unreadable"
    /\ Len(stdout) = 2

-----------------------------------------------------------------------------
(* C7 *)

\* no two records of the list share a name
UniqueNames(list) == \A j, k \in DOMAIN list : list[j].item = list[k].item => j = k

\* C7 (on the inputs whose names are unique within each year and where N is a
\* count, N >= 0): when the figure is saved, each column holds at most N
\* circles, N = min(override if given else 10, max(len(previous), len(current))).
C7_AtMostNPerColumn ==
    LET N == TopN(max_entries_override, data_prev_all, data_curr_all)
    IN  (Done /\ N >= 0 /\ UniqueNames(data_prev_all) /\ UniqueNames(data_curr_all)) =>
            /\ Cardinality(LeftCircles) <= N
            /\ Cardinality(RightCircles) <= N


-----------------------------------------------------------------------------
(* C8 *)

\* the greatest str of a set, in the order sorted() uses
Latest(S) == CHOOSE x \in S : \A y \in S \ {x} : StrLess(y, x)

\* the categories of the names of a list: for each name the category of its
\* record, the last one when the name repeats ('Unknown' when it has none)
CategoriesIn(list) ==
    {IF "category" \in DOMAIN list[k] THEN list[k].category ELSE "Unknown" :
        k \in {j \in DOMAIN list : \A m \in DOMAIN list : list[m].item = list[j].item => m <= j}}

\* the circle is the circle of a record of the list
CircleOfRecordIn(c, list) ==
    \E k \in DOMAIN list :
        /\ c.name = list[k].item
        /\ c.rank_text = Str(list[k].rank)
        /\ c.color = CATEGORY_COLORS[IF "category" \in DOMAIN list[k]
                                     THEN list[k].category ELSE "Unknown"]

\* C8: with two or more year keys, once create_visualization is set up the
\* left label and list are those of the second-latest key and the right label
\* and list those of the latest key; N and the colour keys come from these
\* two lists alone; and in the saved figure every circle, curve, NEW label,
\* previous-rank circle and legend entry comes from a record or category of
\* these two lists.
C8_LastTwoYearsOnly ==
    (SetUp /\ Cardinality(DOMAIN data) >= 2) =>
        LET curr == Latest(DOMAIN data)
            prev == Latest(DOMAIN data \ {curr})
            cats == CategoriesIn(data[prev]) \cup CategoriesIn(data[curr])
        IN  /\ year_labels = <<prev, curr>>
            /\ data_prev_all = data[prev]
            /\ data_curr_all = data[curr]
            /\ max_entries = TopN(max_entries_override, data[prev], data[curr])
            /\ DOMAIN CATEGORY_COLORS = DOMAIN FALLBACK_COLORS \cup cats
            /\ Done =>
                   /\ \A c \in LeftCircles : CircleOfRecordIn(c, data[prev])
                   /\ \A c \in RightCircles : CircleOfRecordIn(c, data[curr])
                   /\ Cardinality(LeftCircles) =
                          Cardinality({k \in DOMAIN data[prev] : data[prev][k].rank <= max_entries})
                   /\ Cardinality(RightCircles) =
                          Cardinality({k \in DOMAIN data[curr] : data[curr][k].rank <= max_entries})
                   /\ \A c \in curves :
                          /\ c.name \in ShownNames(data[prev], max_entries)
                          /\ c.name \in ShownNames(data[curr], max_entries)
                          /\ c.rank_change =
                                 <<RankIn(data[prev], c.name) - RankIn(data[curr], c.name)>>
                   /\ \A l \in new_labels : l.name \in ShownNames(data[curr], max_entries)
                   /\ \A q \in prev_indicators :
                          q.text = Str(RankIn(data[prev], q.name))
                   /\ {e.category : e \in legend} = cats

\* a saved figure of a file with three years, where the earliest year holds a
\* record that neither column shows
C8_Witness ==
    /\ Done
    /\ DOMAIN data = {"2023", "2024", "Current Year"}
    /\ circles # {}
    /\ \E k \in DOMAIN data["2023"] :
           data["2023"][k].item \notin {c.name : c \in circles}

-----------------------------------------------------------------------------
(* C9 *)

\* nothing but the frame is on the canvas
NothingDrawn ==
    /\ data_prev = <<>> /\ data_curr = <<>>
    /\ circles = {} /\ curves = {} /\ new_labels = {}
    /\ prev_indicators = {} /\ legend = {}

\* C9 as stated: with fewer than two year keys the labels are the
\* placeholders, nothing is drawn in either column or in the legend, and the
\* run ends with the figure saved.
C9_FewerThanTwoYearsDrawsNothing ==
    (SetUp /\ Cardinality(DOMAIN data) < 2) =>
        /\ year_labels = <<"Previous Year", "Current Year">>
        /\ max_entries = 0
        /\ NothingDrawn
        /\ pc # "raised"
        /\ pc = "returned" => output_written

\* C9 amended: with fewer than two year keys the labels are the placeholders;
\* when moreover no key of the data is itself one of the two placeholder
\* labels, N = min(0, override) (0 unless the override is negative), nothing
\* is drawn in either column or in the legend and the run ends with the
\* figure saved.
C9_PlaceholderYearsDrawNothing ==
    (SetUp /\ Cardinality(DOMAIN data) < 2) =>
        /\ year_labels = <<"Previous Year", "Current Year">>
        /\ (DOMAIN data \cap {"Previous Year", "Current Year"} = {}) =>
               /\ max_entries = TopN(max_entries_override, <<>>, <<>>)
               /\ max_entries <= 0
               /\ NothingDrawn
               /\ pc # "raised"
               /\ pc = "returned" => output_written

\* a saved, empty figure of a file whose only year holds records
C9_Witness ==
    /\ Done
    /\ DOMAIN data = {"2023"}
    /\ data["2023"] # <<>>
    /\ year_labels = <<"Previous Year", "Current Year">>
    /\ circles = {}

-----------------------------------------------------------------------------
(* C10 *)

\* C10: two different category names of the input never get the same colour.
C10_DistinctCategoriesDistinctColors ==
    color_dict # <<>> =>
        \A c, d \in Range(categories) : c # d => color_dict[c] # color_dict[d]


-----------------------------------------------------------------------------
(* C11 *)

\* the name has a record somewhere in the list
HasRecord(list, name) == \E k \in DOMAIN list : list[k].item = name

-----------------------------------------------------------------------------
(* C12 *)

\* the categories written in the records of a list
WrittenCategories(list) ==
    {list[k].category : k \in {j \in DOMAIN list : "category" \in DOMAIN list[j]}}

\* e comes before f in the legend grid (columns left to right, rows downwards)
CellBefore(e, f) == e.column < f.column \/ (e.column = f.column /\ e.row < f.row)

\* the legend has every category written in the two full lists
LegendHasEveryCategory ==
    (WrittenCategories(data_prev_all) \cup WrittenCategories(data_curr_all))
        \subseteq {e.category : e \in legend}

\* no category twice, sorted names in grid order, at most 4 per column, one
\* category per cell
LegendLayout ==
    /\ \A e, f \in legend : e.category = f.category => e = f
    /\ \A e, f \in legend : StrLess(e.category, f.category) => CellBefore(e, f)
    /\ \A e \in legend : Cardinality({f \in legend : f.column = e.column}) <= 4
    /\ \A e, f \in legend : (e.column = f.column /\ e.row = f.row) => e = f
    /\ \A e, f \in legend : (e.x = f.x /\ e.y10 = f.y10) => e = f

-----------------------------------------------------------------------------
(* C13 *)

\* item names are unique within each year of the data file
UniqueNamesPerYear == \A y \in DOMAIN fs_data : UniqueNames(fs_data[y])

\* the category a drawing step looks up for a record
LookedUp(r) == IF "category" \in DOMAIN r THEN r.category ELSE "Unknown"

\* C13: on a data file whose item names are unique within each year, no
\* KeyError is raised, and once the colours are generated "Unknown" is a key
\* and so is every category looked up for a ranking circle or a previous-rank
\* circle (the displayed records' categories) and for a curve's end points
\* (the two lookups' categories of a name displayed in both columns).
C13_ColorLookupsNeverFail ==
    UniqueNamesPerYear =>
        /\ pc # "raised"
        /\ exception = <<>>
        /\ SetUp =>
               /\ "Unknown" \in DOMAIN CATEGORY_COLORS
               /\ \A k \in DOMAIN data_prev : LookedUp(data_prev[k]) \in DOMAIN CATEGORY_COLORS
               /\ \A k \in DOMAIN data_curr : LookedUp(data_curr[k]) \in DOMAIN CATEGORY_COLORS
               /\ \A n \in ShownNames(data_prev_all, max_entries)
                            \cap ShownNames(data_curr_all, max_entries) :
                      /\ n \in DOMAIN item_category_prev
                      /\ n \in DOMAIN item_category_curr
                      /\ item_category_prev[n] \in DOMAIN CATEGORY_COLORS
                      /\ item_category_curr[n] \in DOMAIN CATEGORY_COLORS

\* a saved figure, names unique, with a curve, a circle of the non-fallback
\* category "X" and a circle of a record without category
C13_Witness ==
    /\ Done
    /\ UniqueNamesPerYear
    /\ curves # {}
    /\ \E k \in DOMAIN data_curr : "category" \notin DOMAIN data_curr[k]
    /\ \E k \in DOMAIN data_curr : LookedUp(data_curr[k]) = "X"

\* a KeyError is reachable when a name repeats within a year
C13_RepeatedNameRaises == pc = "raised" /\ exception = <<"KeyError">>

=============================================================================
